---- MODULE Spec2Model ----
(***************************************************************************)
(* Smile Generator (src/app.py): the weighted tag selector, the rating     *)
(* feedback store and the per-session pending selection, as a state        *)
(* machine.  The SQLite file holds two tables, items and ratings; every    *)
(* "with get_connection() as connection" block is one SQLite transaction   *)
(* (committed when the block ends, rolled back when it raises or when the  *)
(* process dies).  Requests of different sessions interleave statement by  *)
(* statement; the requests of one session are served one at a time.        *)
(***************************************************************************)
EXTENDS Integers, Sequences, FiniteSets, TLC

VARIABLES
    CATEGORIES, \* the tag lists of the four categories, as loaded at import
    items,      \* committed rows of table items
    ratings,    \* committed rows of table ratings, in id order
    txOwner,    \* the session whose rate request holds the write transaction
    txItems,    \* table items as the write transaction sees it
    txRatings,  \* table ratings as the write transaction sees it
    session,    \* per session cookie: last_selection, last_image
    pc,         \* per session: the position of the request being served
    req,        \* per session: the locals of the request being served
    resp,       \* the response of the request that just ended, until it is sent
    generated,  \* image files in static/generated
    nextImage,  \* the next fresh uuid of generate_image
    pool,       \* copies in static/inspiration_images, per source image
    counted     \* history: committed rating events of the session's pending selection

vars == <<CATEGORIES, items, ratings, txOwner, txItems, txRatings, session, pc, req, resp,
          generated, nextImage, pool, counted>>

-----------------------------------------------------------------------------
(* Bounds of the model. *)

\* accepted rating events (rows of table ratings)
MaxRatings == 2

\* successful generate requests (image files ever written)
MaxImages == 2

-----------------------------------------------------------------------------
(* Configuration. *)

Sessions == {"s1", "s2"}

NoSession == "none"

\* the tag lists of module inspiration_tags
ACTORS == <<"penguin">>

ACTIVITIES == <<"dancing">>

AREAS == <<"beach", "bar">>

ACCESSORIES == <<"bar">>

\* CATEGORIES, in the order of the dict literal
CategoryOrder == <<"actors", "activities", "areas", "accessories">>

Categories == {CategoryOrder[i] : i \in 1..Len(CategoryOrder)}

\* module inspiration_tags as configured
inspiration_tags ==
    [category \in Categories |->
        CASE category = "actors" -> ACTORS
          [] category = "activities" -> ACTIVITIES
          [] category = "areas" -> AREAS
          [] category = "accessories" -> ACCESSORIES]

Options(category) == CATEGORIES[category]

OptionSet(category) == {Options(category)[i] : i \in 1..Len(Options(category))}

\* session.get(...) returning None
NoTag == ""

NoImage == 0

\* a selection dict with no entry yet; falsy like None and {}
EmptySelection == [c \in Categories |-> NoTag]

\* the rating field of the form as the client may post it
RatingInputs == {"0", "1", "5", "6", "smile"}

\* what one call of the external image endpoint can answer (the API key is set):
\* an image, an HTTP error, a transport error, a body that is not JSON, a JSON
\* body with an empty "data" list, a "data" entry without "b64_json"
ApiResults == {"ok", "http_error", "url_error", "malformed_json",
               "empty_data", "missing_payload"}

-----------------------------------------------------------------------------
(* The store. *)

NewItem(category, name) ==
    [category |-> category, name |-> name, total_score |-> 0, rating_count |-> 0]

\* every configured (category, option)
Pairs == UNION {{<<c, t>> : t \in OptionSet(c)} : c \in Categories}

\* (faulty variant: INSERT OR REPLACE)
InitDbItemsReplace(table) ==
    {r \in table : <<r.category, r.name>> \notin Pairs}
      \cup {NewItem(p[1], p[2]) : p \in Pairs}

\* INSERT OR IGNORE of every configured (category, option)
InitDbItems(table) ==
    table \cup
    { NewItem(p[1], p[2]) :
        p \in {q \in Pairs : ~ \E r \in table : r.category = q[1] /\ r.name = q[2]} }

\* (faulty variant: the read sees the rows of the open write transaction)
SelectItemsUncommitted(category) == {r \in txItems : r.category = category}

\* SELECT name, total_score, rating_count FROM items WHERE category = ?
\* on a connection of its own: the committed rows
SelectItems(category) == {r \in items : r.category = category}

\* (faulty variant: WHERE name = ? alone)
UpdateItemsByName(table, rating_value, category, item) ==
    { IF r.name = item
        THEN [r EXCEPT !.total_score = @ + rating_value, !.rating_count = @ + 1]
        ELSE r : r \in table }

\* (faulty variant: WHERE category = ? alone)
UpdateItemsByCategory(table, rating_value, category, item) ==
    { IF r.category = category
        THEN [r EXCEPT !.total_score = @ + rating_value, !.rating_count = @ + 1]
        ELSE r : r \in table }

\* UPDATE items SET total_score = total_score + ?, rating_count = rating_count + 1
\* WHERE category = ? AND name = ?
UpdateItems(table, rating_value, category, item) ==
    { IF r.category = category /\ r.name = item
        THEN [r EXCEPT !.total_score = @ + rating_value, !.rating_count = @ + 1]
        ELSE r : r \in table }

-----------------------------------------------------------------------------
(* weighted_choice.  A weight is the rational <<numerator, denominator>>. *)

HasRow(rows, option) == \E r \in rows : r.name = option

\* row_map.get(option)
RowOf(rows, option) == CHOOSE r \in rows : r.name = option

\* (faulty variant: weight = average)
WeightNoOffset(rows, option) ==
    IF HasRow(rows, option) /\ RowOf(rows, option).rating_count > 0
      THEN <<RowOf(rows, option).total_score, RowOf(rows, option).rating_count>>
      ELSE <<0, 1>>

\* (faulty variant: weight = 1 + total_score)
WeightBySum(rows, option) ==
    IF HasRow(rows, option) /\ RowOf(rows, option).rating_count > 0
      THEN <<1 + RowOf(rows, option).total_score, 1>>
      ELSE <<1, 1>>

\* (faulty variant: average = total_score // rating_count)
WeightFloorDiv(rows, option) ==
    IF HasRow(rows, option) /\ RowOf(rows, option).rating_count > 0
      THEN <<1 + (RowOf(rows, option).total_score \div RowOf(rows, option).rating_count), 1>>
      ELSE <<1, 1>>

\* weight = 1 + average, average = total_score / rating_count or 0
Weight(rows, option) ==
    IF HasRow(rows, option) /\ RowOf(rows, option).rating_count > 0
      THEN <<RowOf(rows, option).rating_count + RowOf(rows, option).total_score,
             RowOf(rows, option).rating_count>>
      ELSE <<1, 1>>

Weights(rows, options) == [i \in 1..Len(options) |-> Weight(rows, options[i])]

\* random.choices(names, weights=weights, k=1)[0]: any name of positive weight
Choices(names, weights) ==
    {names[i] : i \in {j \in 1..Len(names) : weights[j][1] * weights[j][2] > 0}}

-----------------------------------------------------------------------------
(* Requests. *)

\* the locals of a handler; id is the rowid the INSERT INTO ratings got;
\* overtaken is history: a rating event was committed after the first of the
\* request's weighted_choice reads and before its last
NoRequest ==
    [op |-> "none", k |-> 0, selections |-> EmptySelection, rating_value |-> 0,
     image_path |-> NoImage, id |-> 0, overtaken |-> FALSE]

NoResponse ==
    [session |-> NoSession, kind |-> "none", reason |-> "",
     selections |-> EmptySelection, api |-> "none", at |-> "none", k |-> 0]

NoCookie == [last_selection |-> EmptySelection, last_image |-> NoImage]

\* int(request.form.get("rating", "0")): the digits' value, ValueError otherwise
IsIntLiteral(form) == form \in {"0", "1", "2", "3", "4", "5", "6"}

IntOf(form) ==
    CASE form = "0" -> 0 [] form = "1" -> 1 [] form = "2" -> 2 [] form = "3" -> 3
      [] form = "4" -> 4 [] form = "5" -> 5 [] form = "6" -> 6

\* (faulty variant: the range check left out)
RatingAcceptedAnyValue(selections, rating_value) == selections # EmptySelection

\* not (not selections or rating_value not in range(1, 6))
RatingAccepted(selections, rating_value) ==
    selections # EmptySelection /\ rating_value \in 1..5

\* if rating_value == 5: save_inspiration_image(image_path)
Promotes(rating_value) == rating_value = 5

\* generate_ai_image raises RuntimeError for these results of the call
RaisesRuntimeError(api) ==
    api \in {"http_error", "url_error", "empty_data", "missing_payload"}

\* the message of that RuntimeError
ErrorReason(api) ==
    CASE api = "http_error" -> "Image generation failed: <error body>"
      [] api = "url_error" -> "Image generation failed: <reason>"
      [] api = "empty_data" -> "Image generation failed: no image data returned."
      [] api = "missing_payload" -> "Image generation failed: missing image payload."
      [] OTHER -> ""

\* render_template("image.html", image_path=..., selections=...)
ImagePage(s, selections) ==
    [session |-> s, kind |-> "image_page", reason |-> "",
     selections |-> selections, api |-> "ok", at |-> "image", k |-> 0]

\* render_template("image.html", error=str(exc), selections=selections)
ErrorPage(s, api, selections) ==
    [session |-> s, kind |-> "error_page", reason |-> ErrorReason(api),
     selections |-> selections, api |-> api, at |-> "image", k |-> 0]

\* redirect(url_for("index"))
Redirect(s, at) == [NoResponse EXCEPT !.session = s, !.kind = "redirect", !.at = at]

\* an exception no handler catches (HTTP 500), or the process dying, at position
\* at after k statements of the loop
Crash(s, api, at, k) ==
    [NoResponse EXCEPT !.session = s, !.kind = "crash", !.api = api, !.at = at, !.k = k]

Init ==
    /\ CATEGORIES = inspiration_tags
    /\ items = InitDbItems({})
    /\ ratings = <<>>
    /\ txOwner = NoSession
    /\ txItems = items
    /\ txRatings = <<>>
    /\ session = [s \in Sessions |-> NoCookie]
    /\ pc = [s \in Sessions |-> "idle"]
    /\ req = [s \in Sessions |-> NoRequest]
    /\ resp = NoResponse
    /\ generated = {}
    /\ nextImage = 1
    /\ pool = [i \in 1..MaxImages |-> 0]
    /\ counted = [s \in Sessions |-> 0]

store == <<items, ratings, txOwner, txItems, txRatings>>

files == <<generated, nextImage, pool>>

\* one weighted_choice call of generate_inspiration; the first one opens the
\* POST /generate request.  random.choices raises IndexError on an empty
\* population, which no handler catches
WeightedChoice(s) ==
    /\ resp = NoResponse
    /\ IF pc[s] = "idle" THEN nextImage <= MaxImages ELSE pc[s] = "choose"
    /\ LET category == CategoryOrder[req[s].k + 1]
           options == Options(category)
           weights == Weights(SelectItems(category), options)
       IN IF options = <<>>
            THEN /\ resp' = Crash(s, "none", "choose", req[s].k)
                 /\ pc' = [pc EXCEPT ![s] = "idle"]
                 /\ req' = [req EXCEPT ![s] = NoRequest]
            ELSE /\ \E name \in Choices(options, weights) :
                      req' = [req EXCEPT ![s].op = "generate",
                                         ![s].k = @ + 1,
                                         ![s].selections[category] = name]
                 /\ pc' = [pc EXCEPT ![s] =
                      IF req[s].k + 1 = Len(CategoryOrder) THEN "image" ELSE "choose"]
                 /\ resp' = NoResponse
    /\ UNCHANGED <<CATEGORIES, store, session, files, counted>>

\* generate_image and the rest of generate, the external call answering api
GenerateImage(s, api) ==
    /\ resp = NoResponse
    /\ pc[s] = "image"
    /\ api = "ok" => nextImage <= MaxImages
    /\ pc' = [pc EXCEPT ![s] = "idle"]
    /\ req' = [req EXCEPT ![s] = NoRequest]
    /\ IF api = "ok"
         THEN /\ generated' = generated \cup {nextImage}
              /\ nextImage' = nextImage + 1
              /\ session' = [session EXCEPT ![s] =
                    [last_selection |-> req[s].selections, last_image |-> nextImage]]
              /\ counted' = [counted EXCEPT ![s] = 0]
              /\ resp' = ImagePage(s, req[s].selections)
         ELSE /\ UNCHANGED <<generated, nextImage, session, counted>>
              /\ resp' = IF RaisesRuntimeError(api)
                           THEN ErrorPage(s, api, req[s].selections)
                           ELSE Crash(s, api, "image", 0)
    /\ UNCHANGED <<CATEGORIES, store, pool>>

\* POST /rate arrives: parse the form, read the session, validate
RateBegin(s, form) ==
    /\ resp = NoResponse
    /\ pc[s] = "idle"
    /\ Len(ratings) < MaxRatings
    /\ IF ~ IsIntLiteral(form)
         THEN /\ resp' = Crash(s, "none", "parse", 0)
              /\ UNCHANGED <<pc, req>>
         ELSE IF ~ RatingAccepted(session[s].last_selection, IntOf(form))
         THEN /\ resp' = Redirect(s, "validate")
              /\ UNCHANGED <<pc, req>>
         ELSE /\ pc' = [pc EXCEPT ![s] = "insert"]
              /\ req' = [req EXCEPT ![s] =
                    [NoRequest EXCEPT !.op = "rate", !.rating_value = IntOf(form),
                                      !.selections = session[s].last_selection,
                                      !.image_path = session[s].last_image]]
              /\ resp' = NoResponse
    /\ UNCHANGED <<CATEGORIES, store, session, files, counted>>

\* (faulty variant: a write transaction opens while another one is open)
RateInsertNoLock(s) ==
    /\ resp = NoResponse
    /\ pc[s] = "insert"
    /\ Len(ratings) < MaxRatings
    /\ txOwner' = s
    /\ txRatings' = Append(ratings,
            [rating |-> req[s].rating_value, selections |-> req[s].selections])
    /\ req' = [req EXCEPT ![s].id = Len(ratings) + 1]
    /\ pc' = [pc EXCEPT ![s] = "update"]
    /\ resp' = NoResponse
    /\ UNCHANGED <<CATEGORIES, items, ratings, txItems, session, files, counted>>

\* INSERT INTO ratings: opens the write transaction, once no other is open
RateInsert(s) ==
    /\ resp = NoResponse
    /\ pc[s] = "insert"
    /\ txOwner = NoSession
    /\ Len(ratings) < MaxRatings
    /\ txOwner' = s
    /\ txRatings' = Append(ratings,
            [rating |-> req[s].rating_value, selections |-> req[s].selections])
    /\ req' = [req EXCEPT ![s].id = Len(ratings) + 1]
    /\ pc' = [pc EXCEPT ![s] = "update"]
    /\ resp' = NoResponse
    /\ UNCHANGED <<CATEGORIES, items, ratings, txItems, session, files, counted>>

\* (faulty variant: each UPDATE committed on its own)
RateUpdateAutocommit(s) ==
    /\ resp = NoResponse
    /\ pc[s] = "update"
    /\ LET category == CategoryOrder[req[s].k + 1]
           table == UpdateItems(txItems, req[s].rating_value, category,
                                req[s].selections[category])
       IN /\ txItems' = table
          /\ items' = table
    /\ req' = [req EXCEPT ![s].k = @ + 1]
    /\ pc' = [pc EXCEPT ![s] =
                IF req[s].k + 1 = Len(CategoryOrder) THEN "commit" ELSE "update"]
    /\ resp' = NoResponse
    /\ UNCHANGED <<CATEGORIES, ratings, txOwner, txRatings, session, files, counted>>

\* one UPDATE items of the loop over selections.items(), inside the transaction
RateUpdate(s) ==
    /\ resp = NoResponse
    /\ pc[s] = "update"
    /\ LET category == CategoryOrder[req[s].k + 1]
       IN txItems' = UpdateItems(txItems, req[s].rating_value, category,
                                 req[s].selections[category])
    /\ req' = [req EXCEPT ![s].k = @ + 1]
    /\ pc' = [pc EXCEPT ![s] =
                IF req[s].k + 1 = Len(CategoryOrder) THEN "commit" ELSE "update"]
    /\ resp' = NoResponse
    /\ UNCHANGED <<CATEGORIES, items, ratings, txOwner, txRatings, session, files, counted>>

\* the with block ends: COMMIT
RateCommit(s) ==
    /\ resp = NoResponse
    /\ pc[s] = "commit"
    /\ items' = txItems
    /\ ratings' = txRatings
    /\ txOwner' = NoSession
    /\ counted' = [counted EXCEPT ![s] = @ + 1]
    /\ pc' = [pc EXCEPT ![s] = "finish"]
    /\ req' = [t \in Sessions |->
                [req[t] EXCEPT !.overtaken = @ \/ (pc[t] = "choose" /\ req[t].k >= 1)]]
    /\ resp' = NoResponse
    /\ UNCHANGED <<CATEGORIES, txItems, txRatings, session, files>>

\* (faulty variant: the os.path.exists test inverted)
SaveInspirationImageInverted(image_path) ==
    IF image_path = NoImage \/ image_path \in generated
      THEN pool
      ELSE [pool EXCEPT ![image_path] = @ + 1]

\* save_inspiration_image: a copy of the file under a fresh name
SaveInspirationImage(image_path) ==
    IF image_path = NoImage \/ image_path \notin generated
      THEN pool
      ELSE [pool EXCEPT ![image_path] = @ + 1]

\* the promotion, session.pop twice, the redirect
RateFinish(s) ==
    /\ resp = NoResponse
    /\ pc[s] = "finish"
    /\ pool' = IF Promotes(req[s].rating_value)
                 THEN SaveInspirationImage(req[s].image_path)
                 ELSE pool
    /\ session' = [session EXCEPT ![s] = NoCookie]
    /\ resp' = Redirect(s, "finish")
    /\ pc' = [pc EXCEPT ![s] = "idle"]
    /\ req' = [req EXCEPT ![s] = NoRequest]
    /\ UNCHANGED <<CATEGORIES, store, generated, nextImage, counted>>

\* a statement of rate raises (database is locked, an I/O error in copy2) or the
\* process dies: an open transaction is rolled back, the cookie is not rewritten
RateFail(s) ==
    /\ resp = NoResponse
    /\ pc[s] \in {"insert", "update", "commit", "finish"}
    /\ IF txOwner = s
         THEN /\ txOwner' = NoSession
              /\ txItems' = items
              /\ txRatings' = ratings
         ELSE UNCHANGED <<txOwner, txItems, txRatings>>
    /\ resp' = Crash(s, "none", pc[s], req[s].k)
    /\ pc' = [pc EXCEPT ![s] = "idle"]
    /\ req' = [req EXCEPT ![s] = NoRequest]
    /\ UNCHANGED <<CATEGORIES, items, ratings, session, files, counted>>

\* the response leaves the server; a handler's last statement and the sending
\* of its response are one step of the request, taken before any other step
Deliver ==
    /\ resp # NoResponse
    /\ resp' = NoResponse
    /\ UNCHANGED <<CATEGORIES, store, session, pc, req, files, counted>>

Next ==
    \/ Deliver
    \/ \E s \in Sessions :
          \/ WeightedChoice(s)
          \/ \E api \in ApiResults : GenerateImage(s, api)
          \/ \E form \in RatingInputs : RateBegin(s, form)
          \/ RateInsert(s)
          \/ RateUpdate(s)
          \/ RateCommit(s)
          \/ RateFinish(s)
          \/ RateFail(s)

Spec == Init /\ [][Next]_vars

-----------------------------------------------------------------------------
(* A second specification: weighted_choice over any content of table items  *)
(* (rows rated, unrated or missing), to settle what the function computes.   *)

\* <<total_score, rating_count>> of a row; <<>> stands for no row
AggregateSamples == {<<>>, <<0, 0>>, <<5, 1>>, <<1, 1>>, <<5, 2>>, <<11, 3>>}

\* the tables of one category: each option with one of the samples
SampleTables(category) ==
    { { [category |-> category, name |-> t,
         total_score |-> x[t][1], rating_count |-> x[t][2]] :
          t \in {u \in OptionSet(category) : x[u] # <<>>} } :
      x \in [OptionSet(category) -> AggregateSamples] }

InitChoice ==
    /\ CATEGORIES = inspiration_tags
    /\ \E areas \in SampleTables("areas") :
         items = areas \cup {r \in InitDbItems({}) : r.category # "areas"}
    /\ ratings = <<>>
    /\ txOwner = NoSession
    /\ txItems = items
    /\ txRatings = <<>>
    /\ session = [s \in Sessions |-> NoCookie]
    /\ pc = [s \in Sessions |-> "idle"]
    /\ req = [s \in Sessions |-> NoRequest]
    /\ resp = NoResponse
    /\ generated = {}
    /\ nextImage = 1
    /\ pool = [i \in 1..MaxImages |-> 0]
    /\ counted = [s \in Sessions |-> 0]

NextChoice ==
    \/ Deliver
    \/ \E s \in Sessions :
          \/ WeightedChoice(s)
          \/ \E api \in ApiResults : GenerateImage(s, api)

SpecChoice == InitChoice /\ [][NextChoice]_vars

-----------------------------------------------------------------------------
(* A third specification: the process from its start.  Importing the module  *)
(* runs init_db, running it as a script runs init_db once more, then         *)
(* app.run serves requests until the process ends; the database file, the    *)
(* image files and the clients' cookies outlive the process.                 *)

\* the tag lists the module may be configured with: the lists above, or those
\* with the list of one category empty
TagLists ==
    {inspiration_tags}
      \cup {[inspiration_tags EXCEPT ![c] = <<>>] : c \in Categories}

\* init_db returned
Started(at) == [NoResponse EXCEPT !.kind = "started", !.at = at]

\* init_db, called at import and again under __main__, as one transaction
InitDb ==
    /\ resp = NoResponse
    /\ \A s \in Sessions : pc[s] \in {"down", "main"}
    /\ items' = InitDbItems(items)
    /\ txItems' = items'
    /\ pc' = [s \in Sessions |-> IF pc[s] = "down" THEN "main" ELSE "idle"]
    /\ resp' = Started(IF \A s \in Sessions : pc[s] = "down" THEN "import" ELSE "main")
    /\ UNCHANGED <<CATEGORIES, ratings, txOwner, txRatings, session, req, files, counted>>

\* the process ends: the requests in flight end with it, an open transaction
\* is rolled back
Shutdown ==
    /\ resp = NoResponse
    /\ \A s \in Sessions : pc[s] # "down"
    /\ pc' = [s \in Sessions |-> "down"]
    /\ req' = [s \in Sessions |-> NoRequest]
    /\ txOwner' = NoSession
    /\ txItems' = items
    /\ txRatings' = ratings
    /\ resp' = NoResponse
    /\ UNCHANGED <<CATEGORIES, items, ratings, session, files, counted>>

\* before the first start: no database file, no image
InitStartup ==
    /\ CATEGORIES \in TagLists
    /\ items = {}
    /\ ratings = <<>>
    /\ txOwner = NoSession
    /\ txItems = items
    /\ txRatings = <<>>
    /\ session = [s \in Sessions |-> NoCookie]
    /\ pc = [s \in Sessions |-> "down"]
    /\ req = [s \in Sessions |-> NoRequest]
    /\ resp = NoResponse
    /\ generated = {}
    /\ nextImage = 1
    /\ pool = [i \in 1..MaxImages |-> 0]
    /\ counted = [s \in Sessions |-> 0]

NextStartup ==
    \/ InitDb
    \/ Shutdown
    \/ Next

SpecStartup == InitStartup /\ [][NextStartup]_vars

-----------------------------------------------------------------------------
(* What the claims speak of. *)

HasItem(table, c, t) == \E r \in table : r.category = c /\ r.name = t

Item(table, c, t) == CHOOSE r \in table : r.category = c /\ r.name = t

\* a row after one rating event of value r
Rated(row, r) ==
    [row EXCEPT !.total_score = @ + r, !.rating_count = @ + 1]

\* the weight weighted_choice gives (c, t) on the committed table
DrawWeight(table, c, t) == Weight({r \in table : r.category = c}, t)

\* comparison of rationals with positive denominators
AtMost(v, w) == v[1] * w[2] <= w[1] * v[2]

Equals(v, n) == v[2] # 0 /\ v[1] = n * v[2]

\* the aggregates the committed rating events add up to
RECURSIVE ScoreFromLog(_, _, _)
ScoreFromLog(log, c, t) ==
    IF log = <<>> THEN 0
    ELSE ScoreFromLog(Tail(log), c, t)
           + (IF Head(log).selections[c] = t THEN Head(log).rating ELSE 0)

RECURSIVE CountFromLog(_, _, _)
CountFromLog(log, c, t) ==
    IF log = <<>> THEN 0
    ELSE CountFromLog(Tail(log), c, t)
           + (IF Head(log).selections[c] = t THEN 1 ELSE 0)

RowsFromLog(log, c) ==
    { [category |-> c, name |-> t, total_score |-> ScoreFromLog(log, c, t),
       rating_count |-> CountFromLog(log, c, t)] : t \in OptionSet(c) }

RatePositions == {"insert", "update", "commit", "finish"}

\* the rate requests whose transaction is committed and whose response is not
\* yet sent
Committed == {s \in Sessions : pc[s] = "finish"}

\* what the rate requests of the sessions S add to row (c, t)
RECURSIVE ScoreFromRequests(_, _, _)
ScoreFromRequests(S, c, t) ==
    IF S = {} THEN 0
    ELSE LET s == CHOOSE x \in S : TRUE
         IN ScoreFromRequests(S \ {s}, c, t)
              + (IF req[s].selections[c] = t THEN req[s].rating_value ELSE 0)

RECURSIVE CountFromRequests(_, _, _)
CountFromRequests(S, c, t) ==
    IF S = {} THEN 0
    ELSE LET s == CHOOSE x \in S : TRUE
         IN CountFromRequests(S \ {s}, c, t)
              + (IF req[s].selections[c] = t THEN 1 ELSE 0)

\* the log without the events of the sessions S
RECURSIVE LogWithout(_, _)
LogWithout(log, S) ==
    IF log = <<>> THEN <<>>
    ELSE LET rest == LogWithout(SubSeq(log, 1, Len(log) - 1), S)
         IN IF \E s \in S : req[s].id = Len(log)
              THEN rest
              ELSE Append(rest, log[Len(log)])

\* sums over the rows of a table
RECURSIVE SumScore(_)
SumScore(rows) ==
    IF rows = {} THEN 0
    ELSE LET r == CHOOSE x \in rows : TRUE
         IN r.total_score + SumScore(rows \ {r})

RECURSIVE SumCount(_)
SumCount(rows) ==
    IF rows = {} THEN 0
    ELSE LET r == CHOOSE x \in rows : TRUE
         IN r.rating_count + SumCount(rows \ {r})

\* the sum of the logged ratings
RECURSIVE SumRatings(_)
SumRatings(log) ==
    IF log = <<>> THEN 0 ELSE Head(log).rating + SumRatings(Tail(log))

-----------------------------------------------------------------------------
(* The claims. *)

\* the rows of the selection of session s, each incremented by its rating
AllRowsRated(s) ==
    \A c \in Categories :
        Item(items', c, req[s].selections[c])
          = Rated(Item(items, c, req[s].selections[c]), req[s].rating_value)

\* C1: every step, a failure in the middle of a rate request included, leaves
\* the committed aggregate rows as they are or increments every (category, tag)
\* row of one rated selection by (rating, 1): never only some of them.
C1_AllOrNothing ==
    [][items' = items \/ \E s \in Sessions : pc[s] = "commit" /\ AllRowsRated(s)]_vars

\* C1 witness: a rate request failed after some but not all of its UPDATEs.
C1_FailedMidUpdate ==
    /\ resp.kind = "crash"
    /\ resp.at = "update"
    /\ resp.k \in 1..(Len(CategoryOrder) - 1)

\* C2 (as amended): what one weighted_choice read returns is, in every state,
\* exactly what the committed rating events add up to: each event's increment
\* of the category is in it or, while the event is uncommitted, not in it.
C2_ReadsCommittedEvents ==
    \A c \in Categories : SelectItems(c) = RowsFromLog(ratings, c)

\* C2 witness: a generate request is between two reads while a rate request
\* holds uncommitted increments.
C2_ReadDuringTransaction ==
    \E s \in Sessions :
        /\ pc[s] = "choose"
        /\ txOwner \notin {s, NoSession}
        /\ txItems # items

\* C2 as claimed: all the reads of one generate request see the same rating
\* events, none or all of each event's increments.
C2_OneSnapshotPerGenerate ==
    \A s \in Sessions : pc[s] = "image" => ~ req[s].overtaken

\* C3: the commit of an accepted rate request with rating r and selection S
\* adds r to total_score and 1 to rating_count of each pair of S, logs one
\* event, and leaves every other row as it was.
C3_ExactIncrement ==
    [][ratings' # ratings =>
        \E s \in Sessions :
            /\ pc[s] = "commit"
            /\ ratings' = Append(ratings, [rating |-> req[s].rating_value,
                                           selections |-> req[s].selections])
            /\ items' = { IF r.name = req[s].selections[r.category]
                            THEN Rated(r, req[s].rating_value)
                            ELSE r : r \in items }]_vars

\* C3 witness: a rate request has just committed its event.
C3_EventCommitted == \E s \in Sessions : pc[s] = "finish" /\ Len(ratings) >= 1

\* C4: a rate request with a rating outside 1..5 or without a pending selection
\* never gets past validation, and the step that rejects it leaves the rows,
\* the log, the curated pool and the session as they were.
C4_RejectedChangesNothing ==
    [][/\ \A s \in Sessions :
            pc'[s] \in RatePositions =>
                /\ req'[s].rating_value \in 1..5
                /\ req'[s].selections # EmptySelection
       /\ resp'.at \in {"validate", "parse"} =>
            UNCHANGED <<items, ratings, txItems, txRatings, pool, generated, session>>]_vars

\* C4 witness: a rate request was rejected for its rating while a selection
\* was pending.
C4_RejectedWhilePending ==
    /\ resp.kind = "redirect"
    /\ resp.at = "validate"
    /\ session[resp.session].last_selection # EmptySelection

\* C5: every failure of the external image call ends in the error page, with
\* a reason and the selection.
C5_FailureIsRecoverable ==
    (resp.at = "image" /\ resp.api # "ok") =>
        /\ resp.kind = "error_page"
        /\ resp.reason # ""
        /\ resp.selections # EmptySelection

\* C6: no pending selection is counted in the aggregates more than once.
C6_CountedAtMostOnce == \A s \in Sessions : counted[s] <= 1

NeverDecreases ==
  items' = items \/
    \A p \in Pairs :
        /\ HasItem(items', p[1], p[2])
        /\ Item(items', p[1], p[2]).total_score >= Item(items, p[1], p[2]).total_score
        /\ Item(items', p[1], p[2]).rating_count >= Item(items, p[1], p[2]).rating_count

AllSelectable ==
    \A c \in Categories :
        /\ \A t \in OptionSet(c) :
              LET w == DrawWeight(items, c, t) IN w[1] > 0 /\ w[2] > 0
        /\ Choices(Options(c), Weights(SelectItems(c), Options(c))) = OptionSet(c)

\* C7: no step lowers a tag's total_score or rating_count, and in every state
\* every tag's weight is positive and every tag of a category can be drawn.
C7_NoNegativeInfluence == []AllSelectable /\ [][NeverDecreases]_vars

\* C7 witness: a tag has been rated.
C7_SomeTagRated == \E r \in items : r.rating_count > 0 /\ r.total_score > 0

\* the rating a step added to row (c, t)
Added(c, t) == Item(items', c, t).total_score - Item(items, c, t).total_score

\* C8 (as amended): a rating event leaves the weight of a tag it rates at least
\* as high as before exactly when the rating is at least the tag's previous
\* average (0 for an unrated tag); a rating below the average lowers it.
C8_WeightFollowsRating ==
    [][items' = items \/ \A p \in Pairs :
         Item(items', p[1], p[2]).rating_count > Item(items, p[1], p[2]).rating_count =>
            (AtMost(DrawWeight(items, p[1], p[2]), DrawWeight(items', p[1], p[2]))
               <=> Added(p[1], p[2]) * Item(items, p[1], p[2]).rating_count
                     >= Item(items, p[1], p[2]).total_score)]_vars

\* C8 witness: a tag rated twice, by 5 and by 1.
C8_TagRatedTwice == \E r \in items : r.rating_count = 2 /\ r.total_score = 6

\* C8 as claimed: no step lowers the weight of a tag.
C8_WeightNeverDrops ==
    [][\A p \in Pairs :
         AtMost(DrawWeight(items, p[1], p[2]), DrawWeight(items', p[1], p[2]))]_vars

\* C9: the weight of an option is 1 + total_score / rating_count when its row
\* has rating_count > 0 and exactly 1 when the count is 0 or the row is missing;
\* so unrated options weigh the same, and rows (5,1) and (1,1) weigh 6 and 2.
C9_WeightFormula ==
    \A c \in Categories :
        \A i \in 1..Len(Options(c)) :
            LET t == Options(c)[i]
                w == Weights(SelectItems(c), Options(c))[i]
            IN /\ w[2] > 0
               /\ IF HasItem(items, c, t) /\ Item(items, c, t).rating_count > 0
                    THEN /\ (w[1] - w[2]) * Item(items, c, t).rating_count
                               = Item(items, c, t).total_score * w[2]
                         /\ Item(items, c, t).total_score = 5 * Item(items, c, t).rating_count
                               => Equals(w, 6)
                         /\ Item(items, c, t).total_score = Item(items, c, t).rating_count
                               => Equals(w, 2)
                    ELSE w = <<1, 1>>

\* C9 witness: a draw was made with "beach" at (5,1) and "bar" at (1,1).
C9_BeachAndBarRated ==
    /\ \E s \in Sessions : pc[s] = "image" /\ req[s].selections["areas"] = "beach"
    /\ [category |-> "areas", name |-> "beach", total_score |-> 5, rating_count |-> 1]
          \in items
    /\ [category |-> "areas", name |-> "bar", total_score |-> 1, rating_count |-> 1]
          \in items

\* C10: a rate request that ends with rating 5 adds one copy of the session's
\* image to the curated pool, one that ends with another rating adds none, and
\* nothing else changes the pool.
C10_PromotionOnFive ==
    [][/\ \A s \in Sessions :
            (pc[s] = "finish" /\ resp'.kind = "redirect" /\ resp'.session = s) =>
                pool' = IF req[s].rating_value = 5
                          THEN [pool EXCEPT ![req[s].image_path] = @ + 1]
                          ELSE pool
       /\ pool' # pool =>
            \E s \in Sessions : pc[s] = "finish" /\ req[s].rating_value = 5]_vars

\* C10 witness: the pool holds a copy of a generated image.
C10_ImagePromoted == \E i \in 1..MaxImages : pool[i] > 0 /\ i \in generated

\* C11: no step deletes a row; an init_db step leaves every row it finds as it
\* is, total_score and rating_count included, and adds exactly a (0,0) row for
\* each configured tag that had none; any other step that changes a row is the
\* commit of an accepted rate request, so a generate request changes none.
C11_OnlyRatingsMutate ==
    [][/\ \A r \in items : HasItem(items', r.category, r.name)
       /\ IF \A s \in Sessions : pc[s] \in {"down", "main"}
            THEN /\ items \subseteq items'
                 /\ \A p \in Pairs : HasItem(items', p[1], p[2])
                 /\ \A r \in items' \ items :
                        /\ <<r.category, r.name>> \in Pairs
                        /\ r = NewItem(r.category, r.name)
            ELSE items' # items =>
                    \E s \in Sessions :
                        /\ pc[s] = "commit"
                        /\ pc'[s] = "finish"
                        /\ RatingAccepted(req[s].selections, req[s].rating_value)]_vars

\* C11 witness: init_db has run again on a table that holds rated rows.
C11_RerunAfterRatings ==
    /\ resp.kind = "started"
    /\ \E r \in items : r.rating_count > 0

\* C12: with the tag list of some category empty, init_db does not return
\* normally, no request is served and no generate request fails at a draw.
C12_EmptyCategoryFailsFast ==
    (\E c \in Categories : Options(c) = <<>>) =>
        /\ resp.kind # "started"
        /\ \A s \in Sessions : pc[s] \in {"down", "main"}
        /\ ~ (resp.kind = "crash" /\ resp.at = "choose")

\* C13: whenever rate requests of different sessions have committed, in any
\* order and however their statements interleaved, each has its own event in
\* the log and every row holds what it held without them plus the sum of
\* their ratings of it in total_score and their number in rating_count.
C13_NoLostUpdate ==
    /\ \A s \in Committed :
          /\ req[s].id \in 1..Len(ratings)
          /\ ratings[req[s].id] = [rating |-> req[s].rating_value,
                                    selections |-> req[s].selections]
          /\ \A t \in Committed \ {s} : req[t].id # req[s].id
    /\ \A p \in Pairs :
          /\ Item(items, p[1], p[2]).total_score
                = ScoreFromLog(LogWithout(ratings, Committed), p[1], p[2])
                    + ScoreFromRequests(Committed, p[1], p[2])
          /\ Item(items, p[1], p[2]).rating_count
                = CountFromLog(LogWithout(ratings, Committed), p[1], p[2])
                    + CountFromRequests(Committed, p[1], p[2])

\* C13 witness: the rate requests of two sessions, with different ratings of a
\* row both selected, have both committed and neither has returned.
C13_BothCommitted ==
    /\ Committed = Sessions
    /\ \E p \in Pairs : \A s \in Sessions : req[s].selections[p[1]] = p[2]
    /\ \E s, t \in Sessions : req[s].rating_value # req[t].rating_value

\* C14: in every committed state, for each category, the rating_count of its
\* rows add up to the number of records of the ratings log and the total_score
\* of its rows add up to the sum of the logged ratings.
C14_CategorySumsMatchLog ==
    \A c \in Categories :
        /\ SumCount(SelectItems(c)) = Len(ratings)
        /\ SumScore(SelectItems(c)) = SumRatings(ratings)

\* C14 witness: two tags of one category have been rated.
C14_TwoTagsRated ==
    \E r, q \in items :
        /\ r.category = q.category
        /\ r.name # q.name
        /\ r.rating_count > 0
        /\ q.rating_count > 0

====
